---- MODULE Spec2Model ----
(***************************************************************************)
(* Model of dttools: the EEMCG cell-correction tool (src/src/main.rs) and  *)
(* the proton reshape tool (src/src/proton.rs).                            *)
(*                                                                         *)
(* Text is modelled as a sequence of characters.  A character is a one-    *)
(* element string; a non-ASCII character is written by its code point,     *)
(* "u7532" for U+7532.  The empty text is << >>.                           *)
(***************************************************************************)
EXTENDS Integers, Sequences, FiniteSets, TLC

VARIABLES
    variant,   \* which binary runs: "eemcg", "proton", or "codec" (address helpers alone)
    pc,        \* position inside process_excel
    input,     \* the input workbook file on disk (codec: the column number argument)
    book,      \* the in-memory workbook being mutated / built
    locals,    \* local variables of process_excel (codec: the returned names)
    outfile,   \* the file processed_<base name> on disk, NoFile while absent
    phases     \* the phases that have completed successfully, in order

vars == <<variant, pc, input, book, locals, outfile, phases>>

----------------------------------------------------------------------------
(* Bounds of the model *)

MaxHeight == 4
MaxSheets == 2
MaxDataRows == 2
MaxColumnNumber == 18278

----------------------------------------------------------------------------
(* Text helpers: str::contains, str::replace, str::trim *)

Empty == << >>

WhiteSpace == {" ", "\t", "\n", "u3000"}

IsPrefixAt(s, i, t) ==
    /\ i + Len(t) - 1 <= Len(s)
    /\ \A k \in 1..Len(t) : s[i + k - 1] = t[k]

Contains(s, t) == \E i \in 1..(Len(s) - Len(t) + 1) : IsPrefixAt(s, i, t)

RECURSIVE ReplaceFrom(_, _, _, _)
ReplaceFrom(s, i, from, to) ==
    IF i > Len(s) THEN Empty
    ELSE IF IsPrefixAt(s, i, from)
         THEN to \o ReplaceFrom(s, i + Len(from), from, to)
         ELSE <<s[i]>> \o ReplaceFrom(s, i + 1, from, to)

Replace(s, from, to) == ReplaceFrom(s, 1, from, to)

RECURSIVE TrimStart(_)
TrimStart(s) ==
    IF s # Empty /\ Head(s) \in WhiteSpace THEN TrimStart(Tail(s)) ELSE s

RECURSIVE TrimEnd(_)
TrimEnd(s) ==
    IF s # Empty /\ s[Len(s)] \in WhiteSpace
    THEN TrimEnd(SubSeq(s, 1, Len(s) - 1)) ELSE s

Trim(s) == TrimEnd(TrimStart(s))

(* Regex \([^)]*\) : an opening parenthesis, then everything up to the     *)
(* first closing parenthesis after it.                                     *)
HasCloseAfter(s, i) == \E k \in (i + 1)..Len(s) : s[k] = ")"

FirstCloseAfter(s, i) ==
    CHOOSE k \in (i + 1)..Len(s) :
        s[k] = ")" /\ \A m \in (i + 1)..(k - 1) : s[m] # ")"

ReIsMatch(s) == \E i \in 1..Len(s) : s[i] = "(" /\ HasCloseAfter(s, i)

RECURSIVE ReReplaceFrom(_, _)
ReReplaceFrom(s, i) ==
    IF i > Len(s) THEN Empty
    ELSE IF s[i] = "(" /\ HasCloseAfter(s, i)
         THEN ReReplaceFrom(s, FirstCloseAfter(s, i) + 1)
         ELSE <<s[i]>> \o ReReplaceFrom(s, i + 1)

ReReplaceAll(s) == ReReplaceFrom(s, 1)

----------------------------------------------------------------------------
(* Literals of the rule table *)

SheetOld1 == <<"u7532", "u70F7", "u975E", "u7532", "u70F7", "u5206", "u6790", "u4EEA">>  \* 甲烷非甲烷分析仪
SheetNew1 == <<"N", "M", "H", "C", "u76D1", "u6D4B", "u4EEA">>  \* NMHC监测仪
SheetOld2 == <<"V", "O", "C", "s", "u5728", "u7EBF", "u76D1", "u6D4B", "u4EEA">>  \* VOCs在线监测仪
SheetNew2 == <<"V", "O", "C", "s", "u76D1", "u6D4B", "u4EEA">>  \* VOCs监测仪
THC_ppbvC == <<"u603B", "u70C3", "(", "p", "p", "b", "v", "C", ")">>  \* 总烃(ppbvC)
THC_ppbC == <<"u603B", "u70C3", "(", "p", "p", "b", "C", ")">>  \* 总烃(ppbC)
MPXylene == <<"u95F4", "u3001", "u5BF9", "-", "u4E8C", "u7532", "u82EF">>  \* 间、对-二甲苯
MPXyleneNew == <<"u95F4", "/", "u5BF9", "-", "u4E8C", "u7532", "u82EF">>  \* 间/对-二甲苯
OXylene == <<"u90BB", "u4E8C", "u7532", "u82EF">>  \* 邻二甲苯
OXyleneNew == <<"u90BB", "-", "u4E8C", "u7532", "u82EF">>  \* 邻-二甲苯

Sentinel == <<"-", "9", "9", "9">>  \* -999

Code_a24514 == <<"a", "2", "4", "5", "1", "4">>
Code_a24011 == <<"a", "2", "4", "0", "1", "1">>
Code_a24510 == <<"a", "2", "4", "5", "1", "0">>
Code_a25014 == <<"a", "2", "5", "0", "1", "4">>
Code_a24041 == <<"a", "2", "4", "0", "4", "1">>
Code_a24537 == <<"a", "2", "4", "5", "3", "7">>
Code_a24504 == <<"a", "2", "4", "5", "0", "4">>
Code_a25501 == <<"a", "2", "5", "5", "0", "1">>

----------------------------------------------------------------------------
(* Cell data (calamine::Data) and datatype_to_string *)

DataEmpty == [kind |-> "Empty"]
DataString(s) == [kind |-> "String", s |-> s]
(* A float is held by its shortest decimal form: sign, whole digits,       *)
(* fraction digits (<< >> when fract() == 0.0).                            *)
DataFloat(neg, whole, frac) == [kind |-> "Float", neg |-> neg, whole |-> whole, frac |-> frac]

DatatypeToString(cell) ==
    CASE cell.kind = "Empty" -> Empty
      [] cell.kind = "String" -> cell.s
      [] cell.kind = "Float" ->
            (IF cell.neg THEN <<"-">> ELSE Empty) \o cell.whole
            \o (IF cell.frac = Empty THEN Empty ELSE <<".">> \o cell.frac)

(* A worksheet range: height, width and the cells that hold data, keyed by *)
(* 1-based <<row, column>>.  Range::get takes 0-based indices and yields   *)
(* None outside the range or where no data is stored.                      *)
RangeGet(range, row, col) ==
    IF row < range.height /\ col < range.width
       /\ <<row + 1, col + 1>> \in DOMAIN range.cells
    THEN range.cells[<<row + 1, col + 1>>]
    ELSE DataEmpty

CellText(range, row, col) == DatatypeToString(RangeGet(range, row, col))

----------------------------------------------------------------------------
(* Coordinate codec: column_number_to_name / to_a1 (main.rs) and           *)
(* col_to_name / cell_ref (proton.rs)                                      *)

Letters == <<"A", "B", "C", "D", "E", "F", "G", "H", "I", "J", "K", "L", "M",
             "N", "O", "P", "Q", "R", "S", "T", "U", "V", "W", "X", "Y", "Z">>

Digits == <<"0", "1", "2", "3", "4", "5", "6", "7", "8", "9">>

RECURSIVE Decimal(_)
Decimal(n) ==
    IF n < 10 THEN <<Digits[n + 1]>>
    ELSE Decimal(n \div 10) \o <<Digits[(n % 10) + 1]>>

(* Mutant: the remainder is taken of column instead of column - 1. *)
RECURSIVE ColumnNumberToName_OffByOne(_)
ColumnNumberToName_OffByOne(column) ==
    IF column > 0
    THEN ColumnNumberToName_OffByOne((column - 1) \div 26)
         \o <<Letters[(column % 26) + 1]>>
    ELSE Empty

(* while column > 0 { name.insert(0, 'A' + (column-1) % 26); column = (column-1) / 26 } *)
RECURSIVE ColumnNumberToName(_)
ColumnNumberToName(column) ==
    IF column > 0
    THEN ColumnNumberToName((column - 1) \div 26)
         \o <<Letters[((column - 1) % 26) + 1]>>
    ELSE Empty

ToA1(col, row) == ColumnNumberToName(col) \o Decimal(row)

(* while col > 0 { name.push('A' + (col-1) % 26); col = (col-1) / 26 } *)
RECURSIVE ColToNamePushed(_)
ColToNamePushed(col) ==
    IF col > 0
    THEN <<Letters[((col - 1) % 26) + 1]>> \o ColToNamePushed((col - 1) \div 26)
    ELSE Empty

Reverse(s) == [i \in 1..Len(s) |-> s[Len(s) + 1 - i]]

ColToName(col) == Reverse(ColToNamePushed(col))

CellRef(col, row) == ColToName(col) \o Decimal(row)

----------------------------------------------------------------------------
(* Rule engine: the body of the cell loop of find_target_cells *)

(* Anchor cells I3, K3, Q3, AY3, read once before the loop. *)
ReadAnchors(range) ==
    [i3  |-> CellText(range, 2, 8),
     k3  |-> CellText(range, 2, 10),
     q3  |-> CellText(range, 2, 16),
     ay3 |-> CellText(range, 2, 50)]

(* if value.contains(from) { value = value.replace(from, to) } *)
ReplaceIfContains(value, from, to) ==
    IF Contains(value, from) THEN Replace(value, from, to) ELSE value

(* if row_1based == 1 && col_1based == 4 && value == "总烃(ppbvC)" *)
HeaderCorrection(row, col, value) ==
    IF row = 1 /\ col = 4 /\ value = THC_ppbvC THEN THC_ppbC ELSE value

(* Mutant: the total-hydrocarbon unit label is not substituted. *)
Substitute_NoTHC(row, col, original) ==
    ReplaceIfContains(
        ReplaceIfContains(
            ReplaceIfContains(
                ReplaceIfContains(original, SheetOld1, SheetNew1),
                SheetOld2, SheetNew2),
            MPXylene, MPXyleneNew),
        OXylene, OXyleneNew)

(* Literal substitutions and the D1 header correction, in source order. *)
Substitute(row, col, original) ==
    ReplaceIfContains(
        ReplaceIfContains(
            HeaderCorrection(row, col,
                ReplaceIfContains(
                    ReplaceIfContains(
                        ReplaceIfContains(original, SheetOld1, SheetNew1),
                        SheetOld2, SheetNew2),
                    THC_ppbvC, THC_ppbC)),
            MPXylene, MPXyleneNew),
        OXylene, OXyleneNew)

(* Mutant: column I is rewritten whatever the anchor I3 holds. *)
SentinelRewrite_NoAnchor(row, col, value, anchors) ==
    IF row >= 4 /\ Contains(value, Sentinel)
    THEN LET w1 == IF col = 9
                   THEN Sentinel \o <<"#">> \o Code_a24041 ELSE value
             w2 == IF col = 11 /\ anchors.k3 = Code_a24011
                   THEN Sentinel \o <<"#">> \o Code_a24537 ELSE w1
             w3 == IF col = 17 /\ anchors.q3 = Code_a24510
                   THEN Sentinel \o <<"#">> \o Code_a24504 ELSE w2
             w4 == IF col = 51 /\ anchors.ay3 = Code_a25014
                   THEN Sentinel \o <<"#">> \o Code_a25501 ELSE w3
         IN  w4
    ELSE value

(* The -999 rewrite of columns I, K, Q, AY from row 4 on. *)
SentinelRewrite(row, col, value, anchors) ==
    IF row >= 4 /\ Contains(value, Sentinel)
    THEN LET w1 == IF col = 9 /\ anchors.i3 = Code_a24514
                   THEN Sentinel \o <<"#">> \o Code_a24041 ELSE value
             w2 == IF col = 11 /\ anchors.k3 = Code_a24011
                   THEN Sentinel \o <<"#">> \o Code_a24537 ELSE w1
             w3 == IF col = 17 /\ anchors.q3 = Code_a24510
                   THEN Sentinel \o <<"#">> \o Code_a24504 ELSE w2
             w4 == IF col = 51 /\ anchors.ay3 = Code_a25014
                   THEN Sentinel \o <<"#">> \o Code_a25501 ELSE w3
         IN  w4
    ELSE value

(* Mutant: brackets are stripped on every row. *)
StripBrackets_AnyRow(row, value) ==
    IF ReIsMatch(value)
    THEN [value |-> ReReplaceAll(value), make_red_fill |-> TRUE]
    ELSE [value |-> value, make_red_fill |-> FALSE]

(* From row 3 on: delete every parenthesised span and ask for the red fill. *)
StripBrackets(row, value) ==
    IF row >= 3 /\ ReIsMatch(value)
    THEN [value |-> ReReplaceAll(value), make_red_fill |-> TRUE]
    ELSE [value |-> value, make_red_fill |-> FALSE]

(* Mutant: every visited cell is recorded, changed or not. *)
IsChanged_Always(value, original_value) == TRUE

IsChanged(value, original_value) == value # original_value

(* The value and fill flag the loop body computes for one cell, and        *)
(* whether it inserts an update.                                           *)
Outcome(stripped, original_value) ==
    [value         |-> stripped.value,
     make_red_fill |-> stripped.make_red_fill,
     changed       |-> IsChanged(stripped.value, original_value)]

Transform(row, col, original_value, anchors) ==
    Outcome(StripBrackets(row,
                SentinelRewrite(row, col,
                    Substitute(row, col, original_value), anchors)),
            original_value)

CellUpdate(t) == [value |-> Trim(t.value), make_red_fill |-> t.make_red_fill]

----------------------------------------------------------------------------
(* find_target_cells *)

RECURSIVE LastNonEmptyLoop(_, _, _, _)
LastNonEmptyLoop(range, row, col, last_non_empty) ==
    IF col >= range.width THEN last_non_empty
    ELSE LastNonEmptyLoop(range, row, col + 1,
                          IF CellText(range, row, col) # Empty
                          THEN col + 1 ELSE last_non_empty)

RECURSIVE MaxColumnLoop(_, _, _)
MaxColumnLoop(range, row, max_column) ==
    IF row >= range.height THEN max_column
    ELSE LET last_non_empty == LastNonEmptyLoop(range, row, 0, 0)
         IN  MaxColumnLoop(range, row + 1,
                           IF last_non_empty > max_column
                           THEN last_non_empty ELSE max_column)

(* Mutant: no fallback to the width when every row is empty. *)
MaxColumn_NoFallback(range) == MaxColumnLoop(range, 0, 0)

MaxColumn(range) ==
    LET max_column == MaxColumnLoop(range, 0, 0)
    IN  IF max_column = 0 THEN range.width ELSE max_column

(* The cells the double loop visits: for row_1based in 1..=height,         *)
(* for col_1based in 1..=max_column.                                       *)
LoopCells(height, max_column) == (1..height) \X (1..max_column)

(* The update map: one entry per visited cell whose value changed. *)
CollectUpdates(results) ==
    [rc \in {x \in DOMAIN results : results[x].changed} |-> CellUpdate(results[rc])]

ScanCells(range, max_column, anchors) ==
    [height |-> range.height, max_column |-> max_column,
     updates |-> CollectUpdates(
                    [rc \in LoopCells(range.height, max_column) |->
                        Transform(rc[1], rc[2],
                                  CellText(range, rc[1] - 1, rc[2] - 1), anchors)]),
     visited |-> LoopCells(range.height, max_column)]

FindTargetCells(range) ==
    IF range.height = 0 \/ range.width = 0
    THEN [height |-> range.height, max_column |-> 0,
          updates |-> << >>, visited |-> {}]
    ELSE ScanCells(range, MaxColumn(range), ReadAnchors(range))

----------------------------------------------------------------------------
(* The workbook held by umya_spreadsheet: sheets in file order, each with  *)
(* a name and its cells keyed by A1 address.                               *)

NoBook == [sheets |-> << >>, active |-> 0]
NoFile == [written |-> FALSE]
NoLocals == [set |-> FALSE]

SheetCells(range) ==
    LET addr(rc) == ToA1(rc[2], rc[1])
        held == {rc \in DOMAIN range.cells : range.cells[rc].kind # "Empty"}
    IN  [a \in {addr(rc) : rc \in held} |->
            LET rc == CHOOSE x \in held : addr(x) = a
            IN  [value |-> DatatypeToString(range.cells[rc]), red |-> FALSE]]

(* umya_spreadsheet::reader::xlsx::read *)
ReadWorkbook(file) ==
    [sheets |-> [i \in DOMAIN file.sheets |->
                    [name  |-> file.sheets[i].name,
                     cells |-> SheetCells(file.sheets[i].range)]],
     active |-> file.active]

(* Spreadsheet::get_sheet_by_name_mut: the first sheet carrying the name,  *)
(* 0 when there is none.                                                   *)
SheetIndexByName(b, name) ==
    IF \E i \in DOMAIN b.sheets : b.sheets[i].name = name
    THEN CHOOSE i \in DOMAIN b.sheets :
            /\ b.sheets[i].name = name
            /\ \A j \in 1..(i - 1) : b.sheets[j].name # name
    ELSE 0

(* if let Some(sheet) = book.get_sheet_by_name_mut(old) { sheet.set_name(new) } *)
RenameSheet(b, old, new) ==
    LET i == SheetIndexByName(b, old)
    IN  IF i = 0 THEN b
        ELSE [b EXCEPT !.sheets[i].name = new]

FinalSheetName(original) ==
    CASE original = SheetOld1 -> SheetNew1
      [] original = SheetOld2 -> SheetNew2
      [] OTHER -> original

(* cell.set_value(upd.value); if upd.make_red_fill { cell.set_style(red) } *)
WriteCell(cells, addr, upd) ==
    LET old_red == IF addr \in DOMAIN cells THEN cells[addr].red ELSE FALSE
        new     == [value |-> upd.value, red |-> (upd.make_red_fill \/ old_red)]
    IN  [a \in DOMAIN cells \cup {addr} |-> IF a = addr THEN new ELSE cells[a]]

(* for (&(row, col), upd) in &updates { ... sheet.get_cell_mut(to_a1(col, row)) ... } *)
RECURSIVE WriteUpdates(_, _, _)
WriteUpdates(cells, updates, todo) ==
    IF todo = {} THEN cells
    ELSE LET rc == CHOOSE x \in todo : TRUE
         IN  WriteUpdates(WriteCell(cells, ToA1(rc[2], rc[1]), updates[rc]),
                          updates, todo \ {rc})

(* calamine worksheet_range(name) on the input file *)
HasSheetNamed(file, name) == \E i \in DOMAIN file.sheets : file.sheets[i].name = name

WorksheetRange(file, name) ==
    file.sheets[CHOOSE i \in DOMAIN file.sheets : file.sheets[i].name = name].range

(* Mutant: a failed save leaves the file behind. *)
WriteXlsx_Partial(ok, b) == [written |-> TRUE, book |-> b]

(* umya_spreadsheet::writer::xlsx::write *)
WriteXlsx(ok, b) == IF ok THEN [written |-> TRUE, book |-> b] ELSE NoFile

----------------------------------------------------------------------------
(* process_excel of main.rs, one action per phase *)

ReadBook ==
    /\ variant = "eemcg" /\ pc = "start"
    /\ book' = ReadWorkbook(input)
    /\ pc' = "read"
    /\ phases' = Append(phases, "open")
    /\ UNCHANGED <<variant, input, locals, outfile>>

ReadBookFail ==
    /\ variant = "eemcg" /\ pc = "start"
    /\ pc' = "error"
    /\ UNCHANGED <<variant, input, book, locals, outfile, phases>>

RenameSheets ==
    /\ variant = "eemcg" /\ pc = "read"
    /\ LET original == book.sheets[book.active].name
       IN  /\ book' = RenameSheet(RenameSheet(book, SheetOld1, SheetNew1),
                                  SheetOld2, SheetNew2)
           /\ locals' = [set |-> TRUE,
                         active_sheet_name_original |-> original,
                         active_sheet_name_final |-> FinalSheetName(original)]
    /\ pc' = "renamed"
    /\ phases' = Append(phases, "rename")
    /\ UNCHANGED <<variant, input, outfile>>

FindTargets ==
    /\ variant = "eemcg" /\ pc = "renamed"
    /\ HasSheetNamed(input, locals.active_sheet_name_original)
    /\ LET r == FindTargetCells(WorksheetRange(input, locals.active_sheet_name_original))
       IN  locals' = [set |-> TRUE,
                      active_sheet_name_original |-> locals.active_sheet_name_original,
                      active_sheet_name_final |-> locals.active_sheet_name_final,
                      max_row |-> r.height, max_column |-> r.max_column,
                      updates |-> r.updates, visited |-> r.visited]
    /\ pc' = "scanned"
    /\ phases' = Append(phases, "scan")
    /\ UNCHANGED <<variant, input, book, outfile>>

FindTargetsFail ==
    /\ variant = "eemcg" /\ pc = "renamed"
    /\ pc' = "error"
    /\ UNCHANGED <<variant, input, book, locals, outfile, phases>>

ApplyUpdates ==
    /\ variant = "eemcg" /\ pc = "scanned"
    /\ LET i == SheetIndexByName(book, locals.active_sheet_name_final)
       IN  IF i = 0
           THEN /\ pc' = "error"
                /\ UNCHANGED <<book, phases>>
           ELSE /\ book' = [book EXCEPT !.sheets[i].cells =
                               WriteUpdates(@, locals.updates, DOMAIN locals.updates)]
                /\ pc' = "applied"
                /\ phases' = Append(phases, "apply")
    /\ UNCHANGED <<variant, input, locals, outfile>>

Persist ==
    /\ variant = "eemcg" /\ pc = "applied"
    /\ outfile' = WriteXlsx(TRUE, book)
    /\ pc' = "done"
    /\ phases' = Append(phases, "persist")
    /\ UNCHANGED <<variant, input, book, locals>>

PersistFail ==
    /\ variant = "eemcg" /\ pc = "applied"
    /\ outfile' = WriteXlsx(FALSE, book)
    /\ pc' = "error"
    /\ UNCHANGED <<variant, input, book, locals, phases>>

NextEemcg ==
    \/ ReadBook \/ ReadBookFail
    \/ RenameSheets
    \/ FindTargets \/ FindTargetsFail
    \/ ApplyUpdates
    \/ Persist \/ PersistFail

----------------------------------------------------------------------------
(* Input sheets for the cell rules: one probe cell, the four anchor cells  *)
(* of row 3 in one of several fillings, and a width that may exceed the    *)
(* last occupied column.                                                   *)

Str_foo_bar == <<"f", "o", "o", "(", "b", "a", "r", ")">>
Str_foo == <<"f", "o", "o">>
THC_ppbv == <<"u603B", "u70C3", "(", "p", "p", "b", "v", ")">>  \* 总烃(ppbv)
THC == <<"u603B", "u70C3">>  \* 总烃
OXyleneSplit == <<"u90BB", "(", "x", ")", "u4E8C", "u7532", "u82EF">>  \* 邻(x)二甲苯

ProbeTexts ==
    { Sentinel,
      <<" ">> \o Sentinel \o <<" ">>,
      Sentinel \o <<"(", "a", ")">>,
      Sentinel \o <<"#">> \o Code_a24041,
      Str_foo_bar,
      <<" ">> \o Str_foo_bar,
      THC_ppbv,
      THC_ppbvC,
      OXyleneSplit,
      OXylene,
      SheetOld1,
      SheetOld2,
      MPXylene,
      <<"(", "a", ")">>,
      <<"a", "(", "b", ")", "c", "(", "d", ")">>,
      <<"(", "(", "a", ")">>,
      <<"(", "a", ")", ")">>,
      <<"(", "a">>,
      <<" ", "x", " ">>,
      <<"x", " ", "(", "a", ")">>,
      <<"p", "l", "a", "i", "n">> }

ProbeData ==
    {DataEmpty,
     DataFloat(TRUE, <<"9", "9", "9">>, Empty),
     DataFloat(FALSE, <<"1", "2">>, <<"5">>)}
    \cup {DataString(s) : s \in ProbeTexts}

ProbeCols == {1, 4, 5, 9, 11, 17, 51}

AnchorModes == {"none", "match", "swapped", "other", "partial"}

AnchorCells(mode) ==
    CASE mode = "match" ->
            (<<3, 9>> :> DataString(Code_a24514)) @@ (<<3, 11>> :> DataString(Code_a24011))
            @@ (<<3, 17>> :> DataString(Code_a24510)) @@ (<<3, 51>> :> DataString(Code_a25014))
      [] mode = "swapped" ->
            (<<3, 9>> :> DataString(Code_a24011)) @@ (<<3, 11>> :> DataString(Code_a24514))
            @@ (<<3, 17>> :> DataString(Code_a25014)) @@ (<<3, 51>> :> DataString(Code_a24510))
      [] mode = "other" ->
            (<<3, 9>> :> DataString(Code_a24041)) @@ (<<3, 11>> :> DataString(Code_a24537))
            @@ (<<3, 17>> :> DataString(Code_a24504)) @@ (<<3, 51>> :> DataString(Code_a25501))
      [] mode = "partial" ->
            (<<3, 9>> :> DataString(Code_a24514)) @@ (<<3, 17>> :> DataString(Code_a24510))
      [] OTHER -> << >>

SetMax(S) == CHOOSE x \in S : \A y \in S : y <= x

ProbeRange(height, probe, data, mode, extra) ==
    LET cells == (probe :> data) @@ (IF height >= 3 THEN AnchorCells(mode) ELSE << >>)
    IN  [height |-> height,
         width  |-> SetMax({rc[2] : rc \in DOMAIN cells}) + extra,
         cells  |-> cells]

EmptyRange == [height |-> 0, width |-> 0, cells |-> << >>]

SentinelData ==
    {DataFloat(TRUE, <<"9", "9", "9">>, Empty)}
    \cup {DataString(s) : s \in {Sentinel, <<" ">> \o Sentinel \o <<" ">>,
                                 Sentinel \o <<"(", "a", ")">>}}

ExtentData == {DataEmpty, DataString(<<"p", "l", "a", "i", "n">>)}

RangeFamily(data, cols, modes, extras) ==
    UNION {
        {ProbeRange(h, <<r, c>>, d, m, e) :
            r \in 1..h, c \in cols, d \in data,
            m \in (IF h >= 3 THEN modes ELSE {"none"}), e \in extras}
        : h \in 1..MaxHeight}

ProbeRanges ==
    {EmptyRange}
    \cup RangeFamily(ProbeData, {1, 9}, {"none", "match"}, {0})
    \cup RangeFamily(SentinelData, ProbeCols, AnchorModes, {0})
    \cup RangeFamily(ExtentData, ProbeCols, {"none", "partial"}, {0, 1})

CellsInput(range) ==
    [sheets |-> <<[name |-> SheetOld1, range |-> range]>>, active |-> 1]

InitCells ==
    /\ variant = "eemcg"
    /\ pc = "start"
    /\ input \in {CellsInput(g) : g \in ProbeRanges}
    /\ book = NoBook
    /\ locals = NoLocals
    /\ outfile = NoFile
    /\ phases = << >>

SpecCells == InitCells /\ [][NextEemcg]_vars

----------------------------------------------------------------------------
(* Properties of the cell rules, stated on the state the scan leaves      *)
(* (pc = "scanned"): the source grid against the update map.               *)

Scanned == variant = "eemcg" /\ pc = "scanned"

SrcRange == input.sheets[input.active].range
GridCells == DOMAIN SrcRange.cells
OrigText(rc) == CellText(SrcRange, rc[1] - 1, rc[2] - 1)
HasEntry(rc) == rc \in DOMAIN locals.updates
Result(rc) == IF HasEntry(rc) THEN locals.updates[rc].value ELSE OrigText(rc)
Highlight(rc) == HasEntry(rc) /\ locals.updates[rc].make_red_fill

(* column, expected anchor code, replacement code *)
SentinelTable ==
    { <<9, Code_a24514, Code_a24041>>, <<11, Code_a24011, Code_a24537>>,
      <<17, Code_a24510, Code_a24504>>, <<51, Code_a25014, Code_a25501>> }

AnchorOfColumn(col) == CellText(SrcRange, 2, col - 1)

AfterRules12(rc) == Substitute(rc[1], rc[2], OrigText(rc))

Gate(rc) ==
    /\ rc[1] >= 4
    /\ Contains(AfterRules12(rc), Sentinel)
    /\ \E e \in SentinelTable : e[1] = rc[2] /\ AnchorOfColumn(rc[2]) = e[2]

Rewritten(col) ==
    Sentinel \o <<"#">> \o (CHOOSE e \in SentinelTable : e[1] = col)[3]

(* What the remaining rules give when the sentinel rule is left out. *)
WithoutSentinelRule(row, col, text) == StripBrackets(row, Substitute(row, col, text)).value

(* C1: the sentinel rewrite fires exactly when the row is >= 4, the value  *)
(* after rules 1-2 contains -999, the column is 9, 11, 17 or 51 and that   *)
(* column's row-3 anchor holds the expected code; the result is then       *)
(* -999# followed by the paired code.  Otherwise the cell is what the      *)
(* other rules make of it, and a cell holding exactly -999 has no entry.   *)
C1_SentinelGate ==
    Scanned =>
        \A rc \in GridCells :
            /\ Gate(rc) => Result(rc) = Rewritten(rc[2])
            /\ ~Gate(rc) =>
                    LET w == WithoutSentinelRule(rc[1], rc[2], OrigText(rc))
                    IN  /\ HasEntry(rc) <=> (w # OrigText(rc))
                        /\ HasEntry(rc) => Result(rc) = Trim(w)
            /\ (~Gate(rc) /\ OrigText(rc) = Sentinel) =>
                    (~HasEntry(rc) /\ Result(rc) = Sentinel)

C1_Witness ==
    /\ Scanned
    /\ \E rc \in GridCells :
          /\ rc = <<4, 51>> /\ OrigText(rc) = Sentinel /\ Gate(rc)
          /\ HasEntry(rc)
          /\ locals.updates[rc].value = Sentinel \o <<"#">> \o Code_a25501

(* A parenthesised span: "(" with a ")" somewhere after it. *)
HasSpan(s) == \E i \in 1..Len(s) : \E k \in (i + 1)..Len(s) : s[i] = "(" /\ s[k] = ")"

(* Position i of s lies inside a span that starts at some "(" at or before *)
(* it and ends at the first ")" after that "(".                            *)
InSpan(s, i) ==
    \E j \in 1..i :
        /\ s[j] = "("
        /\ \E k \in i..Len(s) :
              /\ k > j /\ s[k] = ")"
              /\ \A m \in (j + 1)..(k - 1) : s[m] # ")"

OutsideSpans(s) ==
    LET keep == SelectSeq([i \in 1..Len(s) |-> i], LAMBDA i : ~InSpan(s, i))
    IN  [n \in 1..Len(keep) |-> s[keep[n]]]

AfterRules123(rc) ==
    SentinelRewrite(rc[1], rc[2], AfterRules12(rc), ReadAnchors(SrcRange))

(* C2: at rows >= 3 a value that, after rules 1-3, contains a "(...)" span *)
(* loses every span, is stored trimmed and is highlighted; at rows 1 and 2 *)
(* nothing is highlighted and a value such as foo(bar) that no             *)
(* substitution touches has no entry.                                      *)
C2_BracketRows ==
    Scanned =>
        \A rc \in GridCells :
            /\ (rc[1] >= 3 /\ HasSpan(AfterRules123(rc))) =>
                    /\ HasEntry(rc)
                    /\ Highlight(rc)
                    /\ Result(rc) = Trim(OutsideSpans(AfterRules123(rc)))
                    /\ ~HasSpan(Result(rc))
            /\ (rc[1] >= 3 /\ ~HasSpan(AfterRules123(rc))) => ~Highlight(rc)
            /\ rc[1] < 3 =>
                    /\ ~Highlight(rc)
                    /\ AfterRules12(rc) = OrigText(rc) => ~HasEntry(rc)

C2_Witness ==
    /\ Scanned
    /\ \E rc \in GridCells :
          /\ rc = <<3, 1>> /\ OrigText(rc) = Str_foo_bar
          /\ HasEntry(rc)
          /\ locals.updates[rc] = [value |-> Str_foo, make_red_fill |-> TRUE]

C4_Idempotent ==
    Scanned =>
        \A rc \in GridCells :
            WithoutSentinelRule(rc[1], rc[2], Result(rc)) = Result(rc)

SubstitutionTargets == {SheetOld1, SheetOld2, THC_ppbvC, MPXylene, OXylene}

NoRuleApplies(rc) ==
    /\ \A target \in SubstitutionTargets : ~Contains(OrigText(rc), target)
    /\ ~Gate(rc)
    /\ ~(rc[1] >= 3 /\ HasSpan(OrigText(rc)))

(* C5: a cell no rule alters has no entry; every key is a grid cell inside *)
(* rows 1..height and columns 1..maxColumn, one entry per cell.            *)
C5_SparseChangeSet ==
    Scanned =>
        /\ \A rc \in GridCells : NoRuleApplies(rc) => ~HasEntry(rc)
        /\ \A rc \in DOMAIN locals.updates :
              /\ rc \in GridCells
              /\ OrigText(rc) # Empty
              /\ 1 <= rc[1] /\ rc[1] <= SrcRange.height
              /\ 1 <= rc[2] /\ rc[2] <= locals.max_column

C5_Witness ==
    /\ Scanned
    /\ locals.updates = << >>
    /\ \E rc \in GridCells :
          /\ OrigText(rc) = <<" ", "x", " ">>
          /\ rc[1] >= 3
          /\ NoRuleApplies(rc)

LastContentColumn(range, r) ==
    SetMax({0} \cup {c \in 1..range.width : CellText(range, r - 1, c - 1) # Empty})

OccupiedMaxColumn(range) ==
    LET m == SetMax({0} \cup {LastContentColumn(range, r) : r \in 1..range.height})
    IN  IF m = 0 THEN range.width ELSE m

(* C6: maxRow is the grid height, maxColumn the largest last non-empty     *)
(* column of any row, or the nominal width when no row has content; the    *)
(* loop visits exactly rows 1..maxRow and columns 1..maxColumn.            *)
C6_OccupiedExtent ==
    Scanned =>
        LET maxColumn == OccupiedMaxColumn(SrcRange)
        IN  /\ locals.max_row = SrcRange.height
            /\ locals.max_column = maxColumn
            /\ locals.visited = (1..SrcRange.height) \X (1..maxColumn)

C6_Witness ==
    /\ Scanned
    /\ SrcRange.height = 2
    /\ \E rc \in GridCells : rc = <<1, 5>> /\ OrigText(rc) # Empty
    /\ locals.max_column = 5 /\ locals.max_row = 2
    /\ SrcRange.width > 5
    /\ <<2, 5>> \in locals.visited /\ <<2, 6>> \notin locals.visited

(* The value rules 1-4 leave for a cell, before the trim. *)
FinalValue(rc) == StripBrackets(rc[1], AfterRules123(rc)).value

(* The stored value of every entry differs from the cell's original text. *)
EntriesDiffer ==
    \A rc \in DOMAIN locals.updates : locals.updates[rc].value # OrigText(rc)

(* C12: every cell ends as the trim of what rules 1-4 leave, and has an    *)
(* entry exactly when that trimmed value differs from its original text;   *)
(* so a cell with leading or trailing whitespace that no rule matches has  *)
(* an entry holding its trimmed text, and every entry's stored value       *)
(* differs from the original.                                               *)
C12_TrimmedChangeSet ==
    Scanned =>
        /\ \A rc \in GridCells :
              /\ Result(rc) = Trim(FinalValue(rc))
              /\ HasEntry(rc) <=> (Trim(FinalValue(rc)) # OrigText(rc))
        /\ EntriesDiffer

----------------------------------------------------------------------------
(* proton.rs: literals *)

T_time == <<"u65F6", "u95F4">>  \* 时间
T_no3 == <<"N", "O", "u2083", "u207B", "(", "u03BC", "g", "/", "m", "u00B3", ")">>  \* NO₃⁻(μg/m³)
T_so4 == <<"S", "O", "u2084", "u00B2", "u207B", "(", "u03BC", "g", "/", "m", "u00B3", ")">>  \* SO₄²⁻(μg/m³)
T_nh4 == <<"N", "H", "u2084", "u207A", "(", "u03BC", "g", "/", "m", "u00B3", ")">>  \* NH₄⁺(μg/m³)
T_cl == <<"C", "l", "u207B", "(", "u03BC", "g", "/", "m", "u00B3", ")">>  \* Cl⁻(μg/m³)
T_k == <<"K", "u207A", "(", "u03BC", "g", "/", "m", "u00B3", ")">>  \* K⁺(μg/m³)
T_na == <<"N", "a", "u207A", "(", "u03BC", "g", "/", "m", "u00B3", ")">>  \* Na⁺(μg/m³)
T_mg == <<"M", "g", "u00B2", "u207A", "(", "u03BC", "g", "/", "m", "u00B3", ")">>  \* Mg²⁺(μg/m³)
T_ca == <<"C", "a", "u00B2", "u207A", "(", "u03BC", "g", "/", "m", "u00B3", ")">>  \* Ca²⁺(μg/m³)

(* The required titles in the order process_excel looks them up: the time  *)
(* column, then the eight measurement columns in output order.             *)
RequiredTitles == <<T_time, T_no3, T_so4, T_nh4, T_cl, T_k, T_na, T_mg, T_ca>>

Banner == <<"u6A59", "u8272", "u548C", "u7EA2", "u8272", "u90E8", "u5206", "u8BF7",
            "u52FF", "u6539", "u52A8", "uFF01", "uFF01", "uFF01">>  \* 橙色和红色部分请勿改动！！！

DefaultA2 ==
    <<"u8BF7", "u53C2", "u8003", " ", "p", "r", "o", "t", "o", "n", "_", "c", "o", "n",
      "f", "i", "g", ".", "e", "x", "a", "m", "p", "l", "e", ".", "t", "x", "t", " ",
      "u521B", "u5EFA", "u914D", "u7F6E", "u6587", "u4EF6", " ", "p", "r", "o", "t",
      "o", "n", "_", "c", "o", "n", "f", "i", "g", ".", "t", "x", "t">>

Unit == <<"u03BC", "g", "/", "m", "u00B3">>  \* μg/m³

Row3Headers ==
    << <<"u79BB", "u5B50", "u8272", "u8C31">>,
       <<"S", "O", "u2082">>,
       <<"H", "N", "O", "u2083">>,
       <<"H", "N", "O", "u2082">>,
       <<"H", "C", "l">>,
       <<"N", "H", "u2083">>,
       <<"N", "O", "u2083", "u207B">>,
       <<"S", "O", "u2084", "u00B2", "u207B">>,
       <<"N", "H", "u2084", "u207A">>,
       <<"C", "l", "u207B">>,
       <<"K", "u207A">>,
       <<"N", "a", "u207A">>,
       <<"M", "g", "u00B2", "u207A">>,
       <<"C", "a", "u00B2", "u207A">>,
       <<"N", "O", "u2082", "u207B">> >>

Row4Values ==
    << <<"4", "4", "0", "1", "0", "0", "0", "0", "1", "0", "0", "0", "3">>,
       <<"a", "2", "1", "0", "2", "6">>,
       <<"a", "2", "1", "5", "1", "1">>,
       <<"a", "2", "1", "5", "1", "0">>,
       <<"a", "2", "1", "0", "2", "4">>,
       <<"a", "2", "1", "0", "0", "1">>,
       <<"a", "0", "6", "0", "0", "6">>,
       <<"a", "0", "6", "0", "0", "5">>,
       <<"a", "0", "6", "0", "0", "9">>,
       <<"a", "0", "6", "0", "0", "8">>,
       <<"a", "0", "6", "0", "1", "3">>,
       <<"a", "0", "6", "0", "1", "2">>,
       <<"a", "0", "6", "0", "1", "1">>,
       <<"a", "0", "6", "0", "1", "0">>,
       <<"a", "0", "6", "0", "1", "9">> >>

Row5Values == <<T_time>> \o [i \in 1..14 |-> Unit]

----------------------------------------------------------------------------
(* proton.rs: parse_time_to_target_format.  chrono's parser is modelled on *)
(* zero-padded fields: a text matches a format when it has the format's    *)
(* shape (digits where the format has a field, the literal elsewhere).     *)

DigitSet == {Digits[i] : i \in 1..10}

Shape(s) == [i \in 1..Len(s) |-> IF s[i] \in DigitSet THEN "d" ELSE s[i]]

ShapeDate(sep) == <<"d", "d", "d", "d", sep, "d", "d", sep, "d", "d">>
ShapeClock == <<"d", "d", ":", "d", "d", ":", "d", "d">>

(* "%Y-%m-%dT%H:%M:%S" and "%Y-%m-%dT%H:%M:%S%.f" *)
MatchesT(s) ==
    /\ Len(s) >= 19
    /\ Shape(SubSeq(s, 1, 19)) = ShapeDate("-") \o <<"T">> \o ShapeClock
    /\ \/ Len(s) = 19
       \/ /\ Len(s) >= 21 /\ Len(s) <= 29
          /\ s[20] = "."
          /\ \A i \in 21..Len(s) : s[i] \in DigitSet

(* "%Y-%m-%d %H:%M:%S" or "%Y/%m/%d %H:%M:%S" *)
MatchesSpace(s) ==
    \/ Shape(s) = ShapeDate("-") \o <<" ">> \o ShapeClock
    \/ Shape(s) = ShapeDate("/") \o <<" ">> \o ShapeClock

(* dt.format("%Y-%m-%d %H:%M:%S") *)
FormatDateTime(s) ==
    SubSeq(s, 1, 4) \o <<"-">> \o SubSeq(s, 6, 7) \o <<"-">> \o SubSeq(s, 9, 10)
    \o <<" ">> \o SubSeq(s, 12, 19)

HasChar(s, ch) == \E i \in 1..Len(s) : s[i] = ch

ParseTrimmedTime(s) ==
    IF HasChar(s, "T")
    THEN (IF MatchesT(s) THEN [ok |-> TRUE, text |-> FormatDateTime(s)]
                         ELSE [ok |-> FALSE])
    ELSE IF HasChar(s, " ")
         THEN (IF MatchesSpace(s) THEN [ok |-> TRUE, text |-> FormatDateTime(s)]
                                  ELSE [ok |-> FALSE])
         ELSE [ok |-> FALSE]

ParseTimeToTargetFormat(time_str) == ParseTrimmedTime(Trim(time_str))

(* parse_time_to_target_format(&time_value).unwrap_or_else(|_| time_value.clone()) *)
UnwrapOrOriginal(parsed, time_value) ==
    IF parsed.ok THEN parsed.text ELSE time_value

FormattedTime(time_value) ==
    UnwrapOrOriginal(ParseTimeToTargetFormat(time_value), time_value)

----------------------------------------------------------------------------
(* proton.rs: is_valid_number and get_value.  str::parse::<f64> accepts an *)
(* optional sign, then inf / infinity / nan in any case, or decimal digits *)
(* with at most one point and an optional exponent.                        *)

Unsigned(s) == IF s # Empty /\ Head(s) \in {"+", "-"} THEN Tail(s) ELSE s

LowerChar(ch) ==
    CASE ch = "I" -> "i" [] ch = "N" -> "n" [] ch = "F" -> "f" [] ch = "A" -> "a"
      [] ch = "T" -> "t" [] ch = "Y" -> "y" [] OTHER -> ch

Lower(s) == [i \in 1..Len(s) |-> LowerChar(s[i])]

IsSpecialFloat(u) ==
    Lower(u) \in { <<"i", "n", "f">>, <<"n", "a", "n">>,
                   <<"i", "n", "f", "i", "n", "i", "t", "y">> }

AllDigits(s) == \A i \in 1..Len(s) : s[i] \in DigitSet

IsMantissa(m) ==
    /\ \A i \in 1..Len(m) : m[i] \in DigitSet \cup {"."}
    /\ Cardinality({i \in 1..Len(m) : m[i] = "."}) <= 1
    /\ \E i \in 1..Len(m) : m[i] \in DigitSet

IsExponent(x) == Unsigned(x) # Empty /\ AllDigits(Unsigned(x))

IsDecimalFloat(u) ==
    IF \E i \in 1..Len(u) : u[i] \in {"e", "E"}
    THEN LET e == CHOOSE i \in 1..Len(u) :
                     u[i] \in {"e", "E"} /\ \A j \in 1..(i - 1) : u[j] \notin {"e", "E"}
         IN  IsMantissa(SubSeq(u, 1, e - 1)) /\ IsExponent(SubSeq(u, e + 1, Len(u)))
    ELSE IsMantissa(u)

ParsesAsF64(s) == IsSpecialFloat(Unsigned(s)) \/ IsDecimalFloat(Unsigned(s))

IsNonEmptyNumber(trimmed) == trimmed # Empty /\ ParsesAsF64(trimmed)

IsValidNumber(value) == IsNonEmptyNumber(Trim(value))

(* Regex \((C|RM)\) *)
QualityCodeMatch(value) ==
    Contains(value, <<"(", "C", ")">>) \/ Contains(value, <<"(", "R", "M", ")">>)

None == [some |-> FALSE]
Some(v) == [some |-> TRUE, v |-> v]

OptionOfValue(value) ==
    IF value = Empty \/ QualityCodeMatch(value) \/ ~IsValidNumber(value)
    THEN None ELSE Some(value)

GetValue(range, row, col) == OptionOfValue(CellText(range, row, col))

----------------------------------------------------------------------------
(* proton.rs: process_excel *)

(* column_map: header.trim() -> col for every non-empty header of row 1;   *)
(* a later column replaces an earlier one with the same title.  -1: None.  *)
ColumnsTitled(range, title) ==
    {col \in 0..(range.width - 1) :
        /\ CellText(range, 0, col) # Empty
        /\ Trim(CellText(range, 0, col)) = title}

ColumnMapGet(range, title) ==
    IF ColumnsTitled(range, title) = {} THEN -1
    ELSE SetMax(ColumnsTitled(range, title))

RequiredColumns(range) == [k \in 1..9 |-> ColumnMapGet(range, RequiredTitles[k])]

(* Mutant: only the time column is required. *)
HeadersFound_TimeOnly(cols) == cols[1] # -1

HeadersFound(cols) == \A k \in 1..9 : cols[k] # -1

DataRowOf(range, row, cols) ==
    [time   |-> FormattedTime(CellText(range, row, cols[1])),
     values |-> [j \in 1..8 |-> GetValue(range, row, cols[j + 1])]]

(* for row in 1..height { if time_value.is_empty() { continue; } ... push } *)
RECURSIVE DataRowsLoop(_, _, _, _)
DataRowsLoop(range, row, cols, data_rows) ==
    IF row >= range.height THEN data_rows
    ELSE DataRowsLoop(range, row + 1, cols,
            IF CellText(range, row, cols[1]) = Empty
            THEN data_rows
            ELSE Append(data_rows, DataRowOf(range, row, cols)))

(* load_a2_text, with the configuration file as found on disk *)
LoadA2Text(config) ==
    IF config.exists THEN Trim(config.content) ELSE DefaultA2

PCell(value, fill) == [value |-> value, fill |-> fill]

FixedCells(a2_text) ==
    (CellRef(1, 1) :> PCell(Banner, "red"))
    @@ (CellRef(1, 2) :> PCell(a2_text, "red"))
    @@ [a \in {CellRef(i, 3) : i \in 1..15} |->
            PCell(Row3Headers[CHOOSE i \in 1..15 : CellRef(i, 3) = a], "orange")]
    @@ [a \in {CellRef(i, 4) : i \in 1..15} |->
            PCell(Row4Values[CHOOSE i \in 1..15 : CellRef(i, 4) = a], "orange")]
    @@ [a \in {CellRef(i, 5) : i \in 1..15} |->
            PCell(Row5Values[CHOOSE i \in 1..15 : CellRef(i, 5) = a], "orange")]

(* let row = row_idx + 6, with row_idx counted from 0 *)
OutputRow(row_idx) == row_idx + 6

ValueText(option) == IF option.some THEN option.v ELSE Empty

DataRowCells(data_row, row) ==
    (CellRef(1, row) :> PCell(data_row.time, "orange"))
    @@ [a \in {CellRef(j + 6, row) : j \in 1..8} |->
            PCell(ValueText(data_row.values[CHOOSE j \in 1..8 : CellRef(j + 6, row) = a]),
                  "none")]

RECURSIVE WriteDataRows(_, _, _)
WriteDataRows(cells, data_rows, row_idx) ==
    IF row_idx >= Len(data_rows) THEN cells
    ELSE WriteDataRows(DataRowCells(data_rows[row_idx + 1], OutputRow(row_idx)) @@ cells,
                       data_rows, row_idx + 1)

NewBook(cells) ==
    [sheets |-> <<[name |-> <<"S", "h", "e", "e", "t", "1">>, cells |-> cells]>>,
     active |-> 1]

POpen ==
    /\ variant = "proton" /\ pc = "start"
    /\ IF input.sheets = << >>
       THEN /\ pc' = "error"
            /\ UNCHANGED <<locals, phases>>
       ELSE /\ locals' = [set |-> TRUE, range |-> input.sheets[1].range]
            /\ pc' = "p_opened"
            /\ phases' = Append(phases, "open")
    /\ UNCHANGED <<variant, input, book, outfile>>

POpenFail ==
    /\ variant = "proton" /\ pc = "start"
    /\ pc' = "error"
    /\ UNCHANGED <<variant, input, book, locals, outfile, phases>>

PMapHeaders ==
    /\ variant = "proton" /\ pc = "p_opened"
    /\ IF locals.range.height < 2 \/ ~HeadersFound(RequiredColumns(locals.range))
       THEN /\ pc' = "error"
            /\ UNCHANGED <<locals, phases>>
       ELSE /\ locals' = [set |-> TRUE, range |-> locals.range,
                          cols |-> RequiredColumns(locals.range)]
            /\ pc' = "p_mapped"
            /\ phases' = Append(phases, "headers")
    /\ UNCHANGED <<variant, input, book, outfile>>

PCollectRows ==
    /\ variant = "proton" /\ pc = "p_mapped"
    /\ locals' = [set |-> TRUE, range |-> locals.range, cols |-> locals.cols,
                  data_rows |-> DataRowsLoop(locals.range, 1, locals.cols, << >>)]
    /\ pc' = "p_rows"
    /\ phases' = Append(phases, "rows")
    /\ UNCHANGED <<variant, input, book, outfile>>

PBuildBook ==
    /\ variant = "proton" /\ pc = "p_rows"
    /\ book' = NewBook(WriteDataRows(FixedCells(LoadA2Text(input.config)),
                                     locals.data_rows, 0))
    /\ pc' = "p_built"
    /\ phases' = Append(phases, "build")
    /\ UNCHANGED <<variant, input, locals, outfile>>

(* proton_config.txt exists but cannot be read *)
PBuildBookFail ==
    /\ variant = "proton" /\ pc = "p_rows"
    /\ input.config.exists
    /\ pc' = "error"
    /\ UNCHANGED <<variant, input, book, locals, outfile, phases>>

PPersist ==
    /\ variant = "proton" /\ pc = "p_built"
    /\ outfile' = WriteXlsx(TRUE, book)
    /\ pc' = "done"
    /\ phases' = Append(phases, "persist")
    /\ UNCHANGED <<variant, input, book, locals>>

PPersistFail ==
    /\ variant = "proton" /\ pc = "p_built"
    /\ outfile' = WriteXlsx(FALSE, book)
    /\ pc' = "error"
    /\ UNCHANGED <<variant, input, book, locals, phases>>

NextProton ==
    \/ POpen \/ POpenFail
    \/ PMapHeaders
    \/ PCollectRows
    \/ PBuildBook \/ PBuildBookFail
    \/ PPersist \/ PPersistFail

----------------------------------------------------------------------------
(* Inputs of whole runs *)

SheetPlain == <<"S", "h", "e", "e", "t", "1">>

SheetNames == {SheetOld1, SheetNew1, SheetOld2, SheetNew2, SheetPlain}

(* The workbook of tests::test_process_excel_end_to_end *)
TestRange ==
    [height |-> 4, width |-> 51,
     cells |-> (<<1, 1>> :> DataString(<<"h", "e", "a", "d", "e", "r">>))
               @@ AnchorCells("match")
               @@ [rc \in {<<4, 9>>, <<4, 11>>, <<4, 17>>, <<4, 51>>} |-> DataString(Sentinel)]
               @@ (<<3, 1>> :> DataString(Str_foo_bar))
               @@ (<<2, 2>> :> DataString(THC_ppbv))]

(* The workbook of examples/gen_sample.rs *)
SampleRange ==
    [height |-> 3, width |-> 1,
     cells |-> (<<1, 1>> :> DataString(<<"h", "e", "a", "d", "e", "r">>))
               @@ (<<3, 1>> :> DataString(<<"h", "e", "l", "l", "o", "(", "w", "o", "r", "l", "d", ")">>))]

(* What a sheet other than the active one holds. *)
OtherRange ==
    [height |-> 3, width |-> 1,
     cells |-> (<<3, 1>> :> DataString(<<"o", "t", "h", "e", "r">>))]

ActiveRanges == {TestRange, SampleRange, EmptyRange}

NameLists ==
    {names \in UNION {[1..n -> SheetNames] : n \in 1..MaxSheets} :
        \A i, j \in DOMAIN names : i # j => names[i] # names[j]}

EemcgInput(names, active, range) ==
    [sheets |-> [i \in DOMAIN names |->
                    [name |-> names[i],
                     range |-> IF i = active THEN range ELSE OtherRange]],
     active |-> active]

EemcgInputs ==
    UNION {{EemcgInput(names, a, g) : a \in DOMAIN names, g \in ActiveRanges}
           : names \in NameLists}

(* Source sheets of the reshape tool.  Time cells come from TimeTexts; the *)
(* measurement cells of a row cycle through MeasData.                      *)
Time_T == <<"2", "0", "2", "5", "-", "0", "1", "-", "0", "5", "T", "1", "4", ":", "3", "9", ":", "3", "2">>
Time_TFrac == Time_T \o <<".", "2", "5", "0">>
Time_Slash == <<"2", "0", "2", "5", "/", "0", "1", "/", "0", "5", " ", "1", "4", ":", "3", "9", ":", "3", "2">>
Time_Canon == <<"2", "0", "2", "5", "-", "0", "1", "-", "0", "5", " ", "1", "4", ":", "3", "9", ":", "3", "2">>
Time_NA == <<"n", "/", "a">>
Time_Words == <<"5", " ", "J", "a", "n">>

TimeTexts ==
    <<Empty, Time_T, Time_Slash, <<" ">> \o Time_Canon \o <<" ">>, Time_TFrac,
      Time_NA, Time_Words>>

Meas_Padded == <<" ", "7", " ">>
Meas_Exp == <<"-", "0", ".", "5", "e", "1">>
Meas_C == <<"3", "(", "C", ")">>
Meas_RM == <<"5", "(", "R", "M", ")">>
Meas_Word == <<"a", "b", "c">>
Meas_TwoPoints == <<"1", ".", "2", ".", "3">>

MeasData ==
    <<DataFloat(FALSE, <<"1", "2">>, <<"5">>), DataEmpty, DataString(Meas_C),
      DataString(Meas_Padded), DataString(Meas_Word), DataString(Meas_RM),
      DataString(Meas_Exp), DataString(Meas_TwoPoints)>>

Ordinal == <<"u5E8F", "u53F7">>  \* 序号

(* A layout: for each source column the required title it carries         *)
(* (0: a column the tool does not use) and the header text of row 1.       *)
PlainLayout ==
    [k \in 1..9 |-> [title |-> k, header |-> RequiredTitles[k]]]

ShiftedLayout ==
    <<[title |-> 0, header |-> Ordinal],
      [title |-> 1, header |-> <<" ">> \o T_time \o <<" ">>]>>
    \o [k \in 1..8 |-> [title |-> 10 - k, header |-> RequiredTitles[10 - k]]]

MissingLayout(m) ==
    [k \in 1..9 |-> [title |-> k, header |-> IF k = m THEN Empty ELSE RequiredTitles[k]]]

Layouts == {PlainLayout, ShiftedLayout} \cup {MissingLayout(m) : m \in 1..9}

SourceCell(title, t, r) ==
    IF title = 0 THEN DataString(Decimal(r))
    ELSE IF title = 1 THEN DataString(TimeTexts[t])
    ELSE MeasData[((t + title) % Len(MeasData)) + 1]

ProtonRange(layout, rows) ==
    [height |-> 1 + Len(rows),
     width  |-> Len(layout),
     cells  |-> [rc \in (1..(1 + Len(rows))) \X (1..Len(layout)) |->
                    IF rc[1] = 1 THEN DataString(layout[rc[2]].header)
                    ELSE SourceCell(layout[rc[2]].title, rows[rc[1] - 1], rc[1] - 1)]]

RowLists == UNION {[1..n -> 1..Len(TimeTexts)] : n \in 0..MaxDataRows}

Configs ==
    {[exists |-> FALSE],
     [exists |-> TRUE, content |-> <<" ", "s", "i", "t", "e", "-", "0", "1", "\n">>]}

ProtonInput(range, config) ==
    [sheets |-> <<[name |-> SheetPlain, range |-> range]>>, config |-> config]

ProtonInputs ==
    {[sheets |-> << >>, config |-> [exists |-> FALSE]],
     ProtonInput(EmptyRange, [exists |-> FALSE])}
    \cup {ProtonInput(ProtonRange(layout, rows), config) :
            layout \in Layouts, rows \in RowLists, config \in Configs}

InitEemcg ==
    /\ variant = "eemcg"
    /\ input \in EemcgInputs

InitProton ==
    /\ variant = "proton"
    /\ input \in ProtonInputs

Init ==
    /\ InitEemcg \/ InitProton
    /\ pc = "start"
    /\ book = NoBook
    /\ locals = NoLocals
    /\ outfile = NoFile
    /\ phases = << >>

Next == NextEemcg \/ NextProton

Spec == Init /\ [][Next]_vars

----------------------------------------------------------------------------
(* The address helpers on their own: one call per column number *)

(* The rows the address helpers are called with. *)
AddressRows == {1, 10}

EncodeColumn ==
    /\ variant = "codec" /\ pc = "call"
    /\ \E row \in AddressRows :
          locals' = [set |-> TRUE,
                     main |-> ColumnNumberToName(input),
                     proton |-> ColToName(input),
                     row |-> row,
                     address |-> ToA1(input, row),
                     cell_ref |-> CellRef(input, row)]
    /\ pc' = "returned"
    /\ UNCHANGED <<variant, input, book, outfile, phases>>

InitCodec ==
    /\ variant = "codec"
    /\ pc = "call"
    /\ input \in 0..MaxColumnNumber
    /\ book = NoBook
    /\ locals = NoLocals
    /\ outfile = NoFile
    /\ phases = << >>

NextCodec == EncodeColumn

SpecCodec == InitCodec /\ [][NextCodec]_vars

----------------------------------------------------------------------------
(* Properties of the address helpers *)

LetterSet == {Letters[i] : i \in 1..26}

LetterValue(ch) == CHOOSE i \in 1..26 : Letters[i] = ch

(* The standard bijective base-26 decoder. *)
RECURSIVE DecodeColumnName(_)
DecodeColumnName(name) ==
    IF name = Empty THEN 0
    ELSE DecodeColumnName(SubSeq(name, 1, Len(name) - 1)) * 26
         + LetterValue(name[Len(name)])

(* C7: for 1 <= n <= 18278 the name consists of letters A-Z, decodes back  *)
(* to n, and column_number_to_name and col_to_name agree on it.            *)
C7_ColumnNames ==
    (variant = "codec" /\ pc = "returned" /\ input >= 1) =>
        /\ locals.main # Empty
        /\ \A i \in 1..Len(locals.main) : locals.main[i] \in LetterSet
        /\ DecodeColumnName(locals.main) = input
        /\ locals.proton = locals.main

C7_Witness ==
    /\ variant = "codec" /\ pc = "returned"
    /\ input = 18278
    /\ locals.main = <<"Z", "Z", "Z">>
    /\ locals.proton = <<"Z", "Z", "Z">>

(* What a caller can take for a column name, and for an A1 address. *)
NameStrings == Seq(LetterSet)
AddressStrings == Seq(LetterSet \cup DigitSet)

(* C11: called with column 0, column_number_to_name and col_to_name give   *)
(* an error outcome, not a name, and to_a1 and cell_ref give an error      *)
(* outcome, not an address string.                                          *)
C11_ZeroIsError ==
    (variant = "codec" /\ pc = "returned" /\ input = 0) =>
        /\ locals.main \notin NameStrings
        /\ locals.proton \notin NameStrings
        /\ locals.address \notin AddressStrings
        /\ locals.cell_ref \notin AddressStrings

----------------------------------------------------------------------------
(* Properties of whole runs *)

EemcgPhases == <<"open", "rename", "scan", "apply", "persist">>
ProtonPhases == <<"open", "headers", "rows", "build", "persist">>

(* The address of column c, row r written out: the letter of a column up   *)
(* to 26 followed by the row in decimal.                                   *)
PlainAddress(c, r) == <<Letters[c]>> \o Decimal(r)

(* C8 as stated: after a finished run the source-active sheet carries its  *)
(* final name and every Change Set entry, and every other sheet holds      *)
(* exactly the cells it held in the input, also when another sheet already *)
(* carries the target name.                                                *)
C8_UpdatesLandInActiveSheet ==
    (variant = "eemcg" /\ pc = "done") =>
        LET out == outfile.book.sheets
            a   == input.active
        IN  /\ phases = EemcgPhases
            /\ locals.active_sheet_name_original = input.sheets[a].name
            /\ out[a].name = FinalSheetName(input.sheets[a].name)
            /\ \A rc \in DOMAIN locals.updates :
                  /\ ToA1(rc[2], rc[1]) \in DOMAIN out[a].cells
                  /\ out[a].cells[ToA1(rc[2], rc[1])].value = locals.updates[rc].value
            /\ \A i \in DOMAIN out :
                  i # a => out[i].cells = SheetCells(input.sheets[i].range)

(* C9: the output file exists only once the run is done, with every phase  *)
(* completed in order by the final persist; a run that ended in error, and *)
(* any run still under way, has written nothing.                           *)
C9_AllOrNothing ==
    /\ outfile.written =>
          /\ pc = "done"
          /\ variant = "eemcg" => phases = EemcgPhases
          /\ variant = "proton" => phases = ProtonPhases
          /\ outfile.book = book
    /\ pc # "done" => outfile = NoFile
    /\ pc = "error" => (~outfile.written /\ Len(phases) < 5)

C9_Witness ==
    /\ variant = "proton"
    /\ pc = "error"
    /\ phases = <<"open", "headers", "rows", "build">>
    /\ book # NoBook
    /\ outfile = NoFile

(* The source sheet of the reshape tool and what the claim expects of it. *)
PSource == input.sheets[1].range

TitlePresent(k) ==
    \E c \in 1..PSource.width : Trim(CellText(PSource, 0, c - 1)) = RequiredTitles[k]

TitleColumn(k) ==
    CHOOSE c \in 1..PSource.width : Trim(CellText(PSource, 0, c - 1)) = RequiredTitles[k]

SourceText(r, k) == CellText(PSource, r - 1, TitleColumn(k) - 1)

(* Source rows (1-based, below the header) whose time cell is not empty. *)
KeptRows == SelectSeq([i \in 1..(PSource.height - 1) |-> i + 1],
                      LAMBDA r : SourceText(r, 1) # Empty)

ExpectedTime(text) ==
    IF text \in {Time_T, Time_Slash, <<" ">> \o Time_Canon \o <<" ">>, Time_TFrac}
    THEN Time_Canon
    ELSE text

NumericTexts == {<<"1", "2", ".", "5">>, Meas_Padded, Meas_Exp}

ExpectedValue(text) == IF text \in NumericTexts THEN text ELSE Empty

(* C10: a missing required title stops the run with nothing written;       *)
(* otherwise no cell-level anomaly stops it, and each source row with a    *)
(* non-empty time cell gives one output row, in source order from row 6:   *)
(* the time normalised, or unchanged when it cannot be parsed; each        *)
(* measurement unchanged when numeric and empty otherwise.                 *)
C10_StructuralVersusCell ==
    (variant = "proton" /\ input.sheets # << >>) =>
        /\ (\E k \in 1..9 : ~TitlePresent(k)) =>
              /\ pc \in {"start", "p_opened", "error"}
              /\ Len(phases) <= 1
              /\ ~outfile.written
        /\ (pc = "error" /\ PSource.height >= 2 /\ \A k \in 1..9 : TitlePresent(k)) =>
              phases \in {<< >>, <<"open", "headers", "rows">>,
                          <<"open", "headers", "rows", "build">>}
        /\ pc = "done" =>
              LET cells == outfile.book.sheets[1].cells
                  n     == Len(KeptRows)
              IN  /\ \A i \in 1..n :
                        /\ PlainAddress(1, 5 + i) \in DOMAIN cells
                        /\ cells[PlainAddress(1, 5 + i)].value
                              = ExpectedTime(SourceText(KeptRows[i], 1))
                        /\ \A j \in 1..8 :
                              /\ PlainAddress(6 + j, 5 + i) \in DOMAIN cells
                              /\ cells[PlainAddress(6 + j, 5 + i)].value
                                    = ExpectedValue(SourceText(KeptRows[i], j + 1))
                  /\ PlainAddress(1, 5 + n + 1) \notin DOMAIN cells
                  /\ cells[PlainAddress(1, 5)].value = T_time

C10_Witness ==
    /\ variant = "proton" /\ pc = "done"
    /\ PSource.height = 3
    /\ Len(KeptRows) = 1
    /\ SourceText(2, 1) = Empty
    /\ SourceText(3, 1) = Time_NA
    /\ outfile.book.sheets[1].cells[PlainAddress(1, 6)].value = Time_NA
    /\ \E j \in 1..8 :
          /\ SourceText(3, j + 1) = Meas_RM
          /\ outfile.book.sheets[1].cells[PlainAddress(6 + j, 6)].value = Empty

====
